---- MODULE Spec2Model ----
(***************************************************************************)
(* Trace_ELBO.differentiable_loss of pyro.contrib.funsor.infer.trace_elbo.  *)
(* A factor is a symbolic expression with a set of free variables           *)
(* ("inputs"); the evaluation is a state machine that walks the function    *)
(* body: split, partition, per-group elimination, cost assembly, probe      *)
(* building, forward contraction, adjoint, integration loop, final mean.    *)
(***************************************************************************)
EXTENDS Integers, Sequences, FiniteSets, TLC

\* ------------------------------------------------------------------------
\* Bounds and universes
\* ------------------------------------------------------------------------
MaxFactors == 1

\* self.num_particles: one particle, or several (the particle plate exists)
ParticleCounts == {1, 2}
\* the bundle's scale: no rescaling, or a common subsampling scale
Scales == {1, 2}

ParticlePlate == "num_particles_vectorized"
Plates == {"p1", "p2"}
GuideLatents == {"x"}
AuxLatents == {"a", "b"}

\* ------------------------------------------------------------------------
\* Generic helpers
\* ------------------------------------------------------------------------
RECURSIVE SetToSeq(_)
SetToSeq(S) ==
    IF S = {} THEN <<>>
    ELSE LET e == CHOOSE e \in S : TRUE IN <<e>> \o SetToSeq(S \ {e})

Range(s) == {s[i] : i \in 1..Len(s)}

RECURSIVE Permutations_(_)
Permutations_(S) ==
    IF S = {} THEN {<<>>}
    ELSE UNION {{<<e>> \o t : t \in Permutations_(S \ {e})} : e \in S}

\* the non-decreasing index sequences of length at most n over 1..m: one
\* representative per multiset
RECURSIVE NonDecreasing(_, _)
NonDecreasing(m, n) ==
    IF n = 0 THEN {<<>>}
    ELSE LET shorter == NonDecreasing(m, n - 1)
             longest == {t \in shorter : Len(t) = n - 1}
         IN shorter \cup
            {sq \in {Append(s, j) : s \in longest, j \in 1..m} :
                \A i \in 1..(Len(sq) - 1) : sq[i] <= sq[i + 1]}

\* ------------------------------------------------------------------------
\* Symbolic factors (funsor terms).  Every term carries its free variables.
\* ------------------------------------------------------------------------
Leaf(id, inputs) ==
    [op |-> "leaf", id |-> id, k |-> 1, vars |-> {}, args |-> {}, inputs |-> inputs]

\* Funsor.reduce(op, reduced_vars): only inputs are reduced, and reducing
\* nothing returns the term itself.
Reduce(op, e, reduced_vars) ==
    LET rv == reduced_vars \cap e.inputs
    IN IF rv = {} THEN e
       ELSE [op |-> op, id |-> <<>>, k |-> 1, vars |-> rv, args |-> {e},
             inputs |-> e.inputs \ rv]

\* functools.reduce(prod_op, factors): the product of a non-empty list.
Prod(fs) ==
    IF Len(fs) = 1 THEN fs[1]
    ELSE [op |-> "prod", id |-> <<>>, k |-> 1, vars |-> {}, args |-> Range(fs),
          inputs |-> UNION {fs[i].inputs : i \in 1..Len(fs)}]

\* scale * f for a scalar scale without inputs; multiplying by 1 leaves the
\* value as it is.
ScaleBy(s, e) ==
    IF s = 1 THEN e
    ELSE [op |-> "mul", id |-> <<>>, k |-> s, vars |-> {}, args |-> {e},
          inputs |-> e.inputs]

\* -f
Neg(e) ==
    [op |-> "neg", id |-> <<>>, k |-> 1, vars |-> {}, args |-> {e}, inputs |-> e.inputs]

\* ------------------------------------------------------------------------
\* funsor.sum_product._partition(terms, sum_vars)
\* The bipartite graph between terms and dims is an insertion-ordered
\* dictionary, here a sequence of entries [key, adj].
\* ------------------------------------------------------------------------
TermKey(i) == [kind |-> "term", idx |-> i, name |-> ""]
DimKey(v) == [kind |-> "dim", idx |-> 0, name |-> v]

HasKey(nb, key) == \E i \in 1..Len(nb) : nb[i].key = key
IndexOfKey(nb, key) == CHOOSE i \in 1..Len(nb) : nb[i].key = key
RemoveAt(s, i) == SubSeq(s, 1, i - 1) \o SubSeq(s, i + 1, Len(s))

\* neighbors[key].append(x), with neighbors.setdefault(key, [])
AppendAdj(nb, key, x) ==
    IF HasKey(nb, key)
    THEN [i \in 1..Len(nb) |->
            IF nb[i].key = key THEN [key |-> key, adj |-> Append(nb[i].adj, x)]
            ELSE nb[i]]
    ELSE Append(nb, [key |-> key, adj |-> <<x>>])

RECURSIVE LinkDims(_, _, _)
LinkDims(nb, i, dims) ==
    IF dims = <<>> THEN nb
    ELSE LinkDims(AppendAdj(AppendAdj(nb, TermKey(i), DimKey(Head(dims))),
                            DimKey(Head(dims)), TermKey(i)),
                  i, Tail(dims))

RECURSIVE BuildNeighbors(_, _, _, _)
BuildNeighbors(nb, terms, sum_vars, i) ==
    IF i > Len(terms) THEN nb
    ELSE BuildNeighbors(
            LinkDims(nb, i, SetToSeq(terms[i].inputs \cap sum_vars)),
            terms, sum_vars, i + 1)

\* for v in neighbors.pop(v): if v not in component: add it, make it pending
RECURSIVE VisitAdj(_, _, _)
VisitAdj(adj, component, pending) ==
    IF adj = <<>> THEN [component |-> component, pending |-> pending]
    ELSE IF \E j \in 1..Len(component) : component[j] = Head(adj)
         THEN VisitAdj(Tail(adj), component, pending)
         ELSE VisitAdj(Tail(adj), Append(component, Head(adj)),
                       Append(pending, Head(adj)))

\* while pending: v = pending.pop(); ...
RECURSIVE Explore(_, _, _)
Explore(nb, component, pending) ==
    IF pending = <<>> THEN [nb |-> nb, component |-> component]
    ELSE LET v == pending[Len(pending)]
             i == IndexOfKey(nb, v)
             r == VisitAdj(nb[i].adj, component, SubSeq(pending, 1, Len(pending) - 1))
         IN Explore(RemoveAt(nb, i), r.component, r.pending)

\* while neighbors: v, pending = neighbors.popitem(); ...
RECURSIVE Components(_, _)
Components(nb, terms) ==
    IF nb = <<>> THEN <<>>
    ELSE LET last == nb[Len(nb)]
             r == Explore(SubSeq(nb, 1, Len(nb) - 1),
                          <<last.key>> \o last.adj, last.adj)
             comp == r.component
             termIdx == SelectSeq(comp, LAMBDA key : key.kind = "term")
             dims == {comp[j].name : j \in {j \in 1..Len(comp) : comp[j].kind = "dim"}}
             this == IF termIdx = <<>> THEN <<>>
                     ELSE << [factors |-> [j \in 1..Len(termIdx) |-> terms[termIdx[j].idx]],
                              vars |-> dims] >>
         IN this \o Components(r.nb, terms)

_partition(terms, sum_vars) ==
    Components(
        BuildNeighbors([i \in 1..Len(terms) |-> [key |-> TermKey(i), adj |-> <<>>]],
                       terms, sum_vars, 1),
        terms)

\* ------------------------------------------------------------------------
\* funsor.sum_product.partial_sum_product(sum_op, prod_op, factors,
\*                                        eliminate, plates)
\* with sum_op = logaddexp and prod_op = add.  ordinal_to_factors is an
\* insertion-ordered dictionary, here a sequence of entries
\* [ordinal, factors].  The result is [err, results]; err is TRUE when the
\* library raises ValueError("intractable!").
\* ------------------------------------------------------------------------
Ordinal(f, plates) == plates \cap f.inputs

\* var_to_ordinal[var] = intersection of the ordinals of the factors with var
VarToOrdinal(factors, plates, sum_vars) ==
    [v \in sum_vars \cap UNION {factors[i].inputs : i \in 1..Len(factors)} |->
        LET ords == {Ordinal(factors[i], plates) :
                        i \in {i \in 1..Len(factors) : v \in factors[i].inputs}}
        IN {p \in plates : \A o \in ords : p \in o}]

\* ordinal_to_factors[ordinal].append(f)
AppendOrdinal(otf, ordinal, f) ==
    IF \E i \in 1..Len(otf) : otf[i].ordinal = ordinal
    THEN [i \in 1..Len(otf) |->
            IF otf[i].ordinal = ordinal
            THEN [ordinal |-> ordinal, factors |-> Append(otf[i].factors, f)]
            ELSE otf[i]]
    ELSE Append(otf, [ordinal |-> ordinal, factors |-> <<f>>])

RECURSIVE GroupByOrdinal(_, _, _, _)
GroupByOrdinal(otf, factors, plates, i) ==
    IF i > Len(factors) THEN otf
    ELSE GroupByOrdinal(AppendOrdinal(otf, Ordinal(factors[i], plates), factors[i]),
                        factors, plates, i + 1)

\* max(ordinal_to_factors, key=len): the first entry of maximal size
MaxOrdinalIndex(otf) ==
    CHOOSE i \in 1..Len(otf) :
        /\ \A j \in 1..Len(otf) : Cardinality(otf[j].ordinal) <= Cardinality(otf[i].ordinal)
        /\ \A j \in 1..(i - 1) : Cardinality(otf[j].ordinal) < Cardinality(otf[i].ordinal)

\* the loop over the groups of one leaf
RECURSIVE LeafGroups(_, _, _, _, _, _, _)
LeafGroups(groups, leaf, otf, results, vto, sum_vars, eliminate) ==
    IF groups = <<>> THEN [err |-> FALSE, otf |-> otf, results |-> results]
    ELSE LET g == Head(groups)
             f == Reduce("logaddexp", Prod(g.factors), g.vars \cap eliminate)
             remaining_sum_vars == sum_vars \cap f.inputs
             new_plates == UNION {vto[v] : v \in remaining_sum_vars}
         IN IF remaining_sum_vars = {}
            THEN LeafGroups(Tail(groups), leaf, otf,
                            Append(results, Reduce("add", f, leaf \cap eliminate)),
                            vto, sum_vars, eliminate)
            ELSE IF new_plates = leaf
                 THEN [err |-> TRUE, otf |-> otf, results |-> results]
                 ELSE LeafGroups(Tail(groups), leaf,
                                 AppendOrdinal(otf, new_plates,
                                               Reduce("add", f, leaf \ new_plates)),
                                 results, vto, sum_vars, eliminate)

\* the factors of a leaf are taken as one group
LeafPartition_Whole(leaf_factors, leaf_reduce_vars) ==
    << [factors |-> leaf_factors, vars |-> leaf_reduce_vars] >>

\* _partition(leaf_factors, leaf_reduce_vars)
LeafPartition(leaf_factors, leaf_reduce_vars) == _partition(leaf_factors, leaf_reduce_vars)

\* while ordinal_to_factors: ...
RECURSIVE Leaves(_, _, _, _, _)
Leaves(otf, results, vto, sum_vars, eliminate) ==
    IF otf = <<>> THEN [err |-> FALSE, results |-> results]
    ELSE LET i == MaxOrdinalIndex(otf)
             leaf == otf[i].ordinal
             leaf_reduce_vars == {v \in DOMAIN vto : vto[v] = leaf}
             r == LeafGroups(LeafPartition(otf[i].factors, leaf_reduce_vars), leaf,
                             RemoveAt(otf, i), results, vto, sum_vars, eliminate)
         IN IF r.err THEN [err |-> TRUE, results |-> r.results]
            ELSE Leaves(r.otf, r.results, vto, sum_vars, eliminate)

partial_sum_product(factors, plates, eliminate) ==
    LET sum_vars == eliminate \ plates
    IN Leaves(GroupByOrdinal(<<>>, factors, plates, 1), <<>>,
              VarToOrdinal(factors, plates, sum_vars), sum_vars, eliminate)

\* Number(UNITS[prod_op]), the initial value of the final product
ProdUnit == [op |-> "unit", id |-> <<>>, k |-> 0, vars |-> {}, args |-> {}, inputs |-> {}]

\* funsor.sum_product.sum_product: the product of the partial results
sum_product(factors, plates, eliminate) ==
    LET r == partial_sum_product(factors, plates, eliminate)
    IN IF r.err THEN [err |-> TRUE, value |-> Leaf(<<>>, {})]
       ELSE [err |-> FALSE,
             value |-> IF r.results = <<>> THEN ProdUnit ELSE Prod(r.results)]

\* ------------------------------------------------------------------------
\* More terms used by differentiable_loss
\* ------------------------------------------------------------------------
\* Constant(cost.inputs, Tensor(0)): the zero-valued probe over a signature
Probe(inputs) ==
    [op |-> "probe", id |-> <<>>, k |-> 0, vars |-> {}, args |-> {}, inputs |-> inputs]

\* the entry of the adjoint's result for a node: its marginal over its inputs
Marginal(node) ==
    [op |-> "marginal", id |-> <<>>, k |-> 1, vars |-> {}, args |-> {node},
     inputs |-> node.inputs]

\* funsor.Integrate(log_measure, integrand, reduced_vars)
Integrate(log_measure, integrand, reduced_vars) ==
    LET ins == log_measure.inputs \cup integrand.inputs
    IN [op |-> "integrate", id |-> <<>>, k |-> 1, vars |-> reduced_vars \cap ins,
        args |-> {log_measure, integrand}, inputs |-> ins \ reduced_vars]

\* elbo += term, starting from to_funsor(0)
Zero == [op |-> "sum", id |-> <<>>, k |-> 0, vars |-> {}, args |-> {}, inputs |-> {}]
Plus(acc, term) ==
    [op |-> "sum", id |-> <<>>, k |-> acc.k + 1, vars |-> {},
     args |-> acc.args \cup {term}, inputs |-> acc.inputs \cup term.inputs]

\* ------------------------------------------------------------------------
\* Trace term bundles (terms_from_trace), and the traces of one evaluation.
\* The guide is traced first and the model is replayed against it, so the
\* model samples only the latents the guide does not have: each model
\* log-measure is the sampling distribution of one auxiliary latent.  Every
\* site lies inside the particle plate when num_particles > 1.
\* ------------------------------------------------------------------------
particle_var_of(n) == IF n > 1 THEN {ParticlePlate} ELSE {}

Digits == <<"1", "2", "3", "4", "5", "6", "7", "8", "9">>

AllPlates == Plates \cup {ParticlePlate}

FactorsInputs(fs) == UNION {fs[i].inputs : i \in 1..Len(fs)}

\* the name of the sample site a log-measure belongs to
SiteOf(log_measure) == log_measure.id[2]

\* measure_vars holds the variables of the sites that have a log-measure,
\* plate_vars the plates of all sites
Bundle(log_factors, log_measures, scale) ==
    [log_factors |-> log_factors,
     log_measures |-> log_measures,
     measure_vars |-> {SiteOf(log_measures[i]) : i \in 1..Len(log_measures)},
     plate_vars |-> (FactorsInputs(log_factors) \cup FactorsInputs(log_measures))
                       \cap AllPlates,
     scale |-> scale]

\* guide traces: each guide latent has one sample site in some plates, which
\* gives a log-measure and a log-density over the same variables
GuideBundles(n) ==
    {Bundle(<<>>, <<>>, 1)} \cup
    {Bundle(<<Leaf(<<"guide_logq", x>>, {x} \cup P \cup particle_var_of(n))>>,
            <<Leaf(<<"guide_measure", x>>, {x} \cup P \cup particle_var_of(n))>>, 1) :
        x \in GuideLatents, P \in SUBSET {"p1"}}

\* a site that uses a value sampled by the guide lies inside the plates of
\* that guide site
InsideGuidePlates(S, P, guide) ==
    (S \cap guide.measure_vars # {}) => (guide.plate_vars \cap Plates) \subseteq P

\* model log-measures: the auxiliary latent "a" (inside or outside plate
\* "p1"; its sampled value may carry the guide's latents), then "b" (inside
\* or outside plate "p2")
ModelMeasures(guide, n) ==
    LET ma == {Leaf(<<"model_measure", "a">>, {"a"} \cup D \cup P \cup particle_var_of(n)) :
                  <<D, P>> \in {dp \in (SUBSET guide.measure_vars) \X (SUBSET {"p1"}) :
                                   InsideGuidePlates(dp[1], dp[2], guide)}}
        mb == {Leaf(<<"model_measure", "b">>, {"b"} \cup P \cup particle_var_of(n)) :
                  P \in SUBSET {"p2"}}
    IN {<<>>} \cup {<<m>> : m \in ma} \cup {<<m1, m2>> : m1 \in ma, m2 \in mb}

\* the plate contexts of the model's log-densities
PlateStacks == {{}, {"p1"}, {"p1", "p2"}}

\* model log-densities: each depends on some of the latents of the two
\* traces (on none only when there is none) and lies in a plate context that
\* contains the plates of every latent it depends on; the sites are listed
\* in one order per multiset of shapes
ModelFactors(ms, guide, n) ==
    LET latents == (FactorsInputs(ms) \ AllPlates) \cup guide.measure_vars
        shapes == SetToSeq(
            {sp[1] \cup sp[2] \cup particle_var_of(n) :
                sp \in {sp \in (SUBSET latents) \X PlateStacks :
                           /\ (latents = {} \/ sp[1] # {})
                           /\ InsideGuidePlates(sp[1], sp[2], guide)
                           /\ \A i \in 1..Len(ms) :
                                 (ms[i].inputs \cap sp[1] \cap AuxLatents # {})
                                    => (ms[i].inputs \cap Plates) \subseteq sp[2]}})
    IN {[i \in 1..Len(sq) |-> Leaf(<<"model_logp", Digits[i]>>, shapes[sq[i]])] :
           sq \in NonDecreasing(Len(shapes), MaxFactors)}

\* ------------------------------------------------------------------------
\* State of one evaluation of differentiable_loss
\* ------------------------------------------------------------------------
VARIABLES
    pc,                   \* position in the function body
    num_particles,        \* self.num_particles
    model_terms,          \* terms_from_trace(model_tr)
    guide_terms,          \* terms_from_trace(guide_tr)
    contracted_factors,
    uncontracted_factors,
    groups,               \* the partition groups still to eliminate
    done_groups,          \* the groups eliminated so far, with their results
    contracted_costs,
    costs,
    ti,                   \* index of the probe-building loop
    targets,              \* dict signature -> probe, as a sequence of entries
    logzq,
    marginals,            \* dict node -> marginal, as a function
    ci,                   \* index of the integration loop
    integrated,           \* the cost terms integrated so far
    elbo,
    result,               \* the returned loss, once returned
    error                 \* the exception that aborted the evaluation

vars == <<pc, num_particles, model_terms, guide_terms, contracted_factors,
          uncontracted_factors, groups, done_groups, contracted_costs, costs,
          ti, targets, logzq, marginals, ci, integrated, elbo, result, error>>

NoTerm == Leaf(<<>>, {})

particle_var == particle_var_of(num_particles)

\* the particle plate is left among the plates
plate_vars_WithParticlePlate == guide_terms.plate_vars \cup model_terms.plate_vars

\* lines 44-46
plate_vars == (guide_terms.plate_vars \cup model_terms.plate_vars) \ particle_var

model_measure_vars == model_terms.measure_vars \ guide_terms.measure_vars

\* the test is made against the guide's latents
IsContracted_GuideLatents(f) == (guide_terms.measure_vars \cap f.inputs) # {}

\* if model_measure_vars.intersection(f.inputs)
IsContracted(f) == (model_measure_vars \cap f.inputs) # {}

\* every model log-factor is handed to the partition
PartitionInput_AllFactors(measures, contracted) == measures \o model_terms.log_factors

\* the first argument of _partition
PartitionInput(measures, contracted) == measures \o contracted

\* the partition is made by the guide's latents
PartitionSumVars_Guide == guide_terms.measure_vars

\* the second argument of _partition
PartitionSumVars == model_terms.measure_vars

\* line 66: group_plates = model_terms["plate_vars"] & group_factor_vars
GroupPlates(group_factors, model_plates) == model_plates \cap FactorsInputs(group_factors)

\* lines 67-69: the intersection over the group's factors of inputs & group_plates
OutermostPlates(group_factors, group_plates) ==
    {p \in group_plates : \A i \in 1..Len(group_factors) : p \in group_factors[i].inputs}

\* the outermost plates are eliminated with the others
ElimPlates_All(group_plates, outermost_plates) == group_plates

\* line 70
ElimPlates(group_plates, outermost_plates) == group_plates \ outermost_plates

\* only the local plates are eliminated, the variables stay
EliminateSet_PlatesOnly(group_vars, elim_plates) == elim_plates

\* line 76: eliminate=group_vars | elim_plates
EliminateSet(group_vars, elim_plates) == group_vars \cup elim_plates

\* line 78: model_terms["scale"] * f for every result
ScaledCosts(scale, results) == [i \in 1..Len(results) |-> ScaleBy(scale, results[i])]

\* the body of the loop over the partition groups
GroupElimination(group_factors, group_vars, model_plates, scale) ==
    LET group_plates == GroupPlates(group_factors, model_plates)
        outermost_plates == OutermostPlates(group_factors, group_plates)
        elim_plates == ElimPlates(group_plates, outermost_plates)
        eliminate == EliminateSet(group_vars, elim_plates)
        r == partial_sum_product(group_factors, group_plates, eliminate)
    IN [factors |-> group_factors,
        vars |-> group_vars,
        group_plates |-> group_plates,
        outermost_plates |-> outermost_plates,
        elim_plates |-> elim_plates,
        eliminate |-> eliminate,
        err |-> r.err,
        results |-> r.results,
        costs |-> ScaledCosts(scale, r.results)]

\* the key leaves the plates out
TargetKey_NoPlates(cost) == cost.inputs \ plate_vars

\* cost.input_vars, the key of the targets dict
TargetKey(cost) == cost.inputs

HasTarget(tg, key) == \E i \in 1..Len(tg) : tg[i].key = key
TargetOf(tg, key) == tg[CHOOSE i \in 1..Len(tg) : tg[i].key = key].probe
TargetValues(tg) == [i \in 1..Len(tg) |-> tg[i].probe]

\* (frozenset(cost.inputs) - plate_vars) - particle_var
IntegrateVars(cost) == (cost.inputs \ plate_vars) \ particle_var

\* plate_vars & frozenset(cost.inputs)
SumVars(cost) == plate_vars \cap cost.inputs

\* line 104: eliminate=(plate_vars | guide_terms["measure_vars"])
ForwardEliminate == plate_vars \cup guide_terms.measure_vars

\* marginals.get(target, default): a missing key gives a default
MarginalLookup_Default(m, target) ==
    [found |-> TRUE, value |-> IF target \in DOMAIN m THEN m[target] ELSE NoTerm]

\* line 116: marginals[target]; a missing key raises KeyError
MarginalLookup(m, target) ==
    IF target \in DOMAIN m THEN [found |-> TRUE, value |-> m[target]]
    ELSE [found |-> FALSE, value |-> NoTerm]

\* lines 81-82: the cost list
CostList(contracted, uncontracted, guide_factors) ==
    contracted \o uncontracted
        \o [i \in 1..Len(guide_factors) |-> Neg(guide_factors[i])]

\* lines 87-97: for cost in costs: if cost.input_vars not in targets: ...
RECURSIVE TargetsLoop(_, _, _)
TargetsLoop(tg, cs, i) ==
    IF i > Len(cs) THEN tg
    ELSE TargetsLoop(IF HasTarget(tg, TargetKey(cs[i])) THEN tg
                     ELSE Append(tg, [key |-> TargetKey(cs[i]),
                                      probe |-> Probe(cs[i].inputs)]),
                     cs, i + 1)

\* lines 113-125: for cost in costs: look up the marginal, integrate, sum
\* over the plates, accumulate; the loop stops where the lookup raises
RECURSIVE IntegrateLoop(_, _, _, _, _, _)
IntegrateLoop(m, tg, cs, i, done, acc) ==
    IF i > Len(cs) THEN [err |-> FALSE, ci |-> i, integrated |-> done, elbo |-> acc]
    ELSE LET cost == cs[i]
             target == TargetOf(tg, TargetKey(cost))
             looked == MarginalLookup(m, target)
             log_measure == looked.value
             measure_vars == IntegrateVars(cost)
             elbo_term == Integrate(log_measure, cost, measure_vars)
             reduced == Reduce("add", elbo_term, SumVars(cost))
         IN IF ~looked.found
            THEN [err |-> TRUE, ci |-> i, integrated |-> done, elbo |-> acc]
            ELSE IntegrateLoop(m, tg, cs, i + 1,
                    Append(done, [index |-> i, cost |-> cost, target |-> target,
                                  log_measure |-> log_measure,
                                  measure_vars |-> measure_vars,
                                  sum_vars |-> SumVars(cost), term |-> reduced]),
                    Plus(acc, reduced))

\* the accumulated bound is returned without the mean
FinalMean_None(e) == e

\* elbo.reduce(funsor.ops.mean, particle_var)
FinalMean(e) == Reduce("mean", e, particle_var)

\* the sets of probes the adjoint pass may have reached
AdjointReach(probes) == {probes} \cup {probes \ {p} : p \in probes}

\* ------------------------------------------------------------------------
\* Init: the two traces have been taken
\* ------------------------------------------------------------------------
Init ==
    \E n \in ParticleCounts :
    \E g \in GuideBundles(n) :
    \E ms \in ModelMeasures(g, n) :
    \E fs \in ModelFactors(ms, g, n) :
    \E sc \in Scales :
        /\ pc = "split"
        /\ num_particles = n
        /\ guide_terms = g
        /\ model_terms = Bundle(fs, ms, sc)
        /\ contracted_factors = <<>>
        /\ uncontracted_factors = <<>>
        /\ groups = <<>>
        /\ done_groups = <<>>
        /\ contracted_costs = <<>>
        /\ costs = <<>>
        /\ ti = 0
        /\ targets = <<>>
        /\ logzq = NoTerm
        /\ marginals = <<>>
        /\ ci = 0
        /\ integrated = <<>>
        /\ elbo = Zero
        /\ result = NoTerm
        /\ error = "none"

\* ------------------------------------------------------------------------
\* Actions
\* ------------------------------------------------------------------------
\* lines 48-62: split the model log-factors and partition
Split ==
    /\ pc = "split"
    /\ contracted_factors' = SelectSeq(model_terms.log_factors, IsContracted)
    /\ uncontracted_factors' =
          SelectSeq(model_terms.log_factors, LAMBDA f : ~IsContracted(f))
    /\ groups' = _partition(PartitionInput(model_terms.log_measures, contracted_factors'),
                            PartitionSumVars)
    /\ pc' = "eliminate"
    /\ UNCHANGED <<num_particles, model_terms, guide_terms, done_groups,
                   contracted_costs, costs, ti, targets, logzq, marginals, ci,
                   integrated, elbo, result, error>>

\* lines 63-78: one iteration of the loop over the partition groups
EliminateGroup ==
    /\ pc = "eliminate"
    /\ groups # <<>>
    /\ LET g == Head(groups)
           r == GroupElimination(g.factors, g.vars, model_terms.plate_vars,
                                 model_terms.scale)
       IN IF r.err
          THEN /\ pc' = "error"
               /\ error' = "intractable"
               /\ UNCHANGED <<groups, done_groups, contracted_costs>>
          ELSE /\ contracted_costs' = contracted_costs \o r.costs
               /\ done_groups' = Append(done_groups, r)
               /\ groups' = Tail(groups)
               /\ UNCHANGED <<pc, error>>
    /\ UNCHANGED <<num_particles, model_terms, guide_terms, contracted_factors,
                   uncontracted_factors, costs, ti, targets, logzq, marginals, ci,
                   integrated, elbo, result>>

\* lines 81-86: the cost list
Assemble ==
    /\ pc = "eliminate"
    /\ groups = <<>>
    /\ costs' = CostList(contracted_costs, uncontracted_factors,
                          guide_terms.log_factors)
    /\ targets' = <<>>
    /\ ti' = 1
    /\ pc' = "targets"
    /\ UNCHANGED <<num_particles, model_terms, guide_terms, contracted_factors,
                   uncontracted_factors, groups, done_groups, contracted_costs,
                   logzq, marginals, ci, integrated, elbo, result, error>>

\* lines 86-97: the probe-building loop
BuildTargets ==
    /\ pc = "targets"
    /\ targets' = TargetsLoop(<<>>, costs, 1)
    /\ ti' = Len(costs) + 1
    /\ pc' = "forward"
    /\ UNCHANGED <<num_particles, model_terms, guide_terms, contracted_factors,
                   uncontracted_factors, groups, done_groups, contracted_costs,
                   costs, logzq, marginals, ci, integrated, elbo, result, error>>

\* lines 99-106: the forward contraction
Forward ==
    /\ pc = "forward"
    /\ LET r == sum_product(guide_terms.log_measures \o TargetValues(targets),
                            plate_vars, ForwardEliminate)
       IN IF r.err
          THEN /\ pc' = "error"
               /\ error' = "intractable"
               /\ UNCHANGED logzq
          ELSE /\ logzq' = r.value
               /\ pc' = "adjoint"
               /\ UNCHANGED error
    /\ UNCHANGED <<num_particles, model_terms, guide_terms, contracted_factors,
                   uncontracted_factors, groups, done_groups, contracted_costs,
                   costs, ti, targets, marginals, ci, integrated, elbo, result>>

\* line 108: the adjoint pass returns marginals for the nodes it reached: for
\* every probe, or for all but one (the integration loop stops at the first
\* probe without a marginal, so leaving out more adds no behaviour)
Adjoint ==
    /\ pc = "adjoint"
    /\ \E reached \in AdjointReach(Range(TargetValues(targets))) :
          marginals' = [node \in reached |-> Marginal(node)]
    /\ elbo' = Zero
    /\ ci' = 1
    /\ pc' = "integrate"
    /\ UNCHANGED <<num_particles, model_terms, guide_terms, contracted_factors,
                   uncontracted_factors, groups, done_groups, contracted_costs,
                   costs, ti, targets, logzq, integrated, result, error>>

\* lines 112-125: the integration loop, up to its end or to the first cost
\* term whose marginal lookup raises
IntegrateCosts ==
    /\ pc = "integrate"
    /\ LET r == IntegrateLoop(marginals, targets, costs, 1, <<>>, Zero)
       IN /\ ci' = r.ci
          /\ integrated' = r.integrated
          /\ elbo' = r.elbo
          /\ IF r.err
             THEN pc' = "error" /\ error' = "KeyError"
             ELSE pc' = "finish" /\ UNCHANGED error
    /\ UNCHANGED <<num_particles, model_terms, guide_terms, contracted_factors,
                   uncontracted_factors, groups, done_groups, contracted_costs,
                   costs, ti, targets, logzq, marginals, result>>

\* lines 127-129: average over the particles and return the loss
Finish ==
    /\ pc = "finish"
    /\ elbo' = FinalMean(elbo)
    /\ result' = Neg(elbo')
    /\ pc' = "done"
    /\ UNCHANGED <<num_particles, model_terms, guide_terms, contracted_factors,
                   uncontracted_factors, groups, done_groups, contracted_costs,
                   costs, ti, targets, logzq, marginals, ci, integrated, error>>

Next ==
    \/ Split
    \/ EliminateGroup
    \/ Assemble
    \/ BuildTargets
    \/ Forward
    \/ Adjoint
    \/ IntegrateCosts
    \/ Finish

Spec == Init /\ [][Next]_vars

\* ------------------------------------------------------------------------
\* The partition and the loop over its groups on their own, for any list of
\* factors over latents and plates and any set of measure variables.  There
\* a group may have no elimination variable at all.
\* ------------------------------------------------------------------------
MaxGroupFactors == 2

GroupInputs ==
    LET shapes == SetToSeq({S \cup P : S \in SUBSET AuxLatents, P \in SUBSET Plates})
    IN {[i \in 1..Len(sq) |-> Leaf(<<"model_measure", Digits[i]>>, shapes[sq[i]])] :
           sq \in NonDecreasing(Len(shapes), MaxGroupFactors)}

InitGroup ==
    \E fs \in GroupInputs :
    \E mv \in SUBSET AuxLatents :
    \E sc \in Scales :
        /\ pc = "split"
        /\ num_particles = 1
        /\ guide_terms = Bundle(<<>>, <<>>, 1)
        /\ model_terms = [Bundle(<<>>, fs, sc) EXCEPT !.measure_vars = mv]
        /\ contracted_factors = <<>>
        /\ uncontracted_factors = <<>>
        /\ groups = <<>>
        /\ done_groups = <<>>
        /\ contracted_costs = <<>>
        /\ costs = <<>>
        /\ ti = 0
        /\ targets = <<>>
        /\ logzq = NoTerm
        /\ marginals = <<>>
        /\ ci = 0
        /\ integrated = <<>>
        /\ elbo = Zero
        /\ result = NoTerm
        /\ error = "none"

NextGroup == Split \/ EliminateGroup

SpecGroup == InitGroup /\ [][NextGroup]_vars

\* ------------------------------------------------------------------------
\* Properties
\* ------------------------------------------------------------------------
\* the quantities of the function body, written out from the two bundles
TheParticlePlate == IF num_particles > 1 THEN {ParticlePlate} ELSE {}
ThePlateVars == (guide_terms.plate_vars \cup model_terms.plate_vars) \ TheParticlePlate
TheAuxLatents == model_terms.measure_vars \ guide_terms.measure_vars

\* the partition as returned: the groups already eliminated, then the rest
AllGroups ==
    [i \in 1..Len(done_groups) |->
        [factors |-> done_groups[i].factors, vars |-> done_groups[i].vars]] \o groups

Partitioned == pc # "split"
JustPartitioned == pc = "eliminate" /\ done_groups = <<>>
CostsAssembled == ti > 0
TargetsBuilt == ti > Len(costs) /\ pc # "targets"

RECURSIVE Flatten(_)
Flatten(ss) == IF ss = <<>> THEN <<>> ELSE Head(ss) \o Flatten(Tail(ss))

\* C1: for every eliminated group, with outer_plates the plates common to
\* all its factors and local_plates its other plates, no cost term produced
\* for the group mentions a variable of group_vars or of local_plates: the
\* free variables of the results are outer plates or variables of the group
\* outside the elimination set.
C1_ResultsFreeOfEliminated ==
    /\ contracted_costs = Flatten([i \in 1..Len(done_groups) |-> done_groups[i].costs])
    /\ \A i \in 1..Len(done_groups) :
          LET r == done_groups[i]
              group_plates == model_terms.plate_vars \cap FactorsInputs(r.factors)
              outer_plates == {p \in group_plates :
                                  \A j \in 1..Len(r.factors) : p \in r.factors[j].inputs}
              local_plates == group_plates \ outer_plates
              eliminated == r.vars \cup local_plates
          IN \A j \in 1..Len(r.costs) :
                /\ r.costs[j].inputs \cap eliminated = {}
                /\ r.costs[j].inputs \subseteq FactorsInputs(r.factors) \ eliminated
                /\ r.costs[j].inputs \cap model_terms.plate_vars \subseteq outer_plates

C1_Witness ==
    \E i \in 1..Len(done_groups) :
        /\ done_groups[i].vars # {}
        /\ done_groups[i].elim_plates # {}
        /\ done_groups[i].outermost_plates # {}
        /\ Len(done_groups[i].factors) > 1
        /\ Len(done_groups[i].costs) > 0

\* C2: the partition of the log-measures and contracted factors by the
\* model's measure variables is the set of maximal connected components of
\* the graph "share an elimination variable": every factor is in exactly one
\* component, different components share no elimination variable, no
\* component splits into two parts without a common elimination variable,
\* each component carries the elimination variables of its factors, and
\* every ordering of the input gives the same set of components.
ComponentSet(gs) == {[factors |-> Range(gs[i].factors), vars |-> gs[i].vars] :
                        i \in 1..Len(gs)}

C2_PartitionIsComponents ==
    JustPartitioned =>
        LET input == model_terms.log_measures \o contracted_factors
            E == model_terms.measure_vars
            gs == AllGroups
            Vars(F) == UNION {f.inputs : f \in F} \cap E
        IN /\ \A k \in 1..Len(input) :
                 Cardinality({i \in 1..Len(gs) : input[k] \in Range(gs[i].factors)}) = 1
           /\ \A i \in 1..Len(gs) : Range(gs[i].factors) \subseteq Range(input)
           /\ \A i \in 1..Len(gs) :
                 /\ Cardinality(Range(gs[i].factors)) = Len(gs[i].factors)
                 /\ gs[i].vars = Vars(Range(gs[i].factors))
           /\ \A i, j \in 1..Len(gs) : i # j => gs[i].vars \cap gs[j].vars = {}
           /\ \A i \in 1..Len(gs) :
                 \A part \in SUBSET Range(gs[i].factors) :
                    (part # {} /\ part # Range(gs[i].factors))
                       => Vars(part) \cap Vars(Range(gs[i].factors) \ part) # {}
           /\ \A perm \in Permutations_(Range(input)) :
                 ComponentSet(_partition(perm, E)) = ComponentSet(gs)

C2_Witness ==
    /\ JustPartitioned
    /\ Len(AllGroups) >= 2
    /\ \E i \in 1..Len(AllGroups) : Len(AllGroups[i].factors) >= 2

\* C3: once the probe-building loop is over, the targets map has exactly
\* one probe per distinct free-variable set among the cost terms, each probe
\* has its key as inputs, and cost terms with equal free-variable sets are
\* integrated against the same probe and the same marginal.
C3_OneProbePerSignature ==
    TargetsBuilt =>
        /\ Len(targets) = Cardinality({costs[i].inputs : i \in 1..Len(costs)})
        /\ {targets[i].key : i \in 1..Len(targets)}
              = {costs[i].inputs : i \in 1..Len(costs)}
        /\ \A i \in 1..Len(targets) : targets[i].probe.inputs = targets[i].key
        /\ \A i \in 1..Len(integrated) :
              /\ integrated[i].target.inputs = integrated[i].cost.inputs
              /\ integrated[i].log_measure = marginals[integrated[i].target]
        /\ \A i, j \in 1..Len(integrated) :
              integrated[i].cost.inputs = integrated[j].cost.inputs
                 => /\ integrated[i].target = integrated[j].target
                    /\ integrated[i].log_measure = integrated[j].log_measure

C3_Witness ==
    /\ pc = "done"
    /\ \E i, j \in 1..Len(integrated) :
          /\ i # j
          /\ integrated[i].cost # integrated[j].cost
          /\ integrated[i].cost.inputs = integrated[j].cost.inputs
          /\ integrated[i].cost.inputs # {}
    /\ Len(targets) >= 2

\* C4 as stated: the forward contraction eliminates no variable of any cost
\* term's probe signature.
C4_Original ==
    CostsAssembled =>
        \A i \in 1..Len(costs) :
            (ThePlateVars \cup guide_terms.measure_vars) \cap costs[i].inputs = {}

\* C4, amended: the forward contraction never eliminates the particle plate,
\* and it eliminates every other variable of every probe signature: a
\* signature variable outside plate_vars | guide measure_vars is the
\* particle plate.
C4_EliminatesAllButParticlePlate ==
    CostsAssembled =>
        /\ ForwardEliminate = ThePlateVars \cup guide_terms.measure_vars
        /\ ForwardEliminate \cap TheParticlePlate = {}
        /\ \A i \in 1..Len(costs) :
              costs[i].inputs \ ForwardEliminate \subseteq TheParticlePlate

C4_Witness ==
    /\ pc = "adjoint"
    /\ \E i \in 1..Len(costs) :
          /\ costs[i].inputs \cap guide_terms.measure_vars # {}
          /\ costs[i].inputs \cap ThePlateVars # {}
          /\ ParticlePlate \in costs[i].inputs

\* C5: when the probe of some cost term has no entry in the marginal map,
\* the evaluation aborts at the first such term: no loss is returned, no
\* marginal is made up, nothing after the failing term is integrated, and
\* nothing runs after the error.  A loss is returned only when every cost
\* term has been integrated against an entry of the marginal map.
ProbeOf(cost) == TargetOf(targets, cost.inputs)
MissingAt(i) == ProbeOf(costs[i]) \notin DOMAIN marginals

C6_NoAuxiliaryIsNaive ==
    (CostsAssembled /\ TheAuxLatents = {}) =>
        /\ contracted_costs = <<>>
        /\ costs = model_terms.log_factors
                      \o [i \in 1..Len(guide_terms.log_factors) |->
                             Neg(guide_terms.log_factors[i])]
        /\ \A i \in 1..Len(integrated) :
              /\ integrated[i].cost = costs[i]
              /\ integrated[i].sum_vars = ThePlateVars \cap costs[i].inputs

C6_Witness ==
    /\ pc = "done"
    /\ TheAuxLatents = {}
    /\ Len(model_terms.log_factors) >= 1
    /\ Len(guide_terms.log_factors) >= 1
    /\ \E i \in 1..Len(integrated) : integrated[i].sum_vars # {}

\* C7 as stated: eliminating two groups of the partition separately, each
\* with its own plate split, and concatenating the results gives the same
\* factors as eliminating their union as one group with the union of the two
\* elimination sets.
SeparateAndJoint(g1, g2) ==
    LET r1 == GroupElimination(g1.factors, g1.vars, model_terms.plate_vars,
                               model_terms.scale)
        r2 == GroupElimination(g2.factors, g2.vars, model_terms.plate_vars,
                               model_terms.scale)
        u == partial_sum_product(g1.factors \o g2.factors,
                                 r1.group_plates \cup r2.group_plates,
                                 r1.eliminate \cup r2.eliminate)
    IN IF r1.err \/ r2.err THEN u.err
       ELSE /\ ~u.err
            /\ Len(u.results) = Len(r1.results) + Len(r2.results)
            /\ Range(u.results) = Range(r1.results) \cup Range(r2.results)

OuterPlatesOf(g) ==
    {p \in model_terms.plate_vars :
        \A j \in 1..Len(g.factors) : p \in g.factors[j].inputs}

C7_Original ==
    JustPartitioned =>
        \A i, j \in 1..Len(AllGroups) :
            i < j => SeparateAndJoint(AllGroups[i], AllGroups[j])

\* C7, amended: two groups of the partition that have the same outer plates
\* give, eliminated separately, the same factors as their union eliminated
\* as one group with the union of the two elimination sets.
C7_SameOuterPlatesAssociative ==
    JustPartitioned =>
        \A i, j \in 1..Len(AllGroups) :
            (i < j /\ OuterPlatesOf(AllGroups[i]) = OuterPlatesOf(AllGroups[j]))
                => SeparateAndJoint(AllGroups[i], AllGroups[j])

C7_Witness ==
    /\ JustPartitioned
    /\ Len(groups) = 2
    /\ OuterPlatesOf(groups[1]) = OuterPlatesOf(groups[2])
    /\ \E i \in 1..2 :
          /\ Len(groups[i].factors) >= 2
          /\ (FactorsInputs(groups[i].factors) \cap Plates)
                \ OuterPlatesOf(groups[i]) # {}
    /\ ~GroupElimination(groups[1].factors, groups[1].vars,
                         model_terms.plate_vars, model_terms.scale).err
    /\ ~GroupElimination(groups[2].factors, groups[2].vars,
                         model_terms.plate_vars, model_terms.scale).err

C9_EveryTermOnceNoFreeVariable ==
    /\ \A i \in 1..Len(integrated) :
          LET r == integrated[i]
          IN /\ i <= Len(costs) /\ r.cost = costs[i] /\ r.index = i
             /\ r.measure_vars = (r.cost.inputs \ ThePlateVars) \ TheParticlePlate
             /\ r.sum_vars = ThePlateVars \cap r.cost.inputs
             /\ r.term.inputs \subseteq TheParticlePlate
             /\ r.term \in elbo.args \/ pc = "done"
    /\ pc = "finish" => (Len(integrated) = Len(costs) /\ elbo.k = Len(costs))
    /\ pc = "done" =>
          /\ Len(integrated) = Len(costs)
          /\ elbo.inputs = {}
          /\ result.inputs = {}

C9_Witness ==
    /\ pc = "done"
    /\ num_particles > 1
    /\ Len(costs) >= 2
    /\ \E i \in 1..Len(integrated) :
          /\ integrated[i].measure_vars # {}
          /\ integrated[i].sum_vars # {}
          /\ integrated[i].term.inputs = {ParticlePlate}

\* C10: every model log-factor is in exactly one of the contracted and
\* uncontracted lists, contracted iff it mentions an auxiliary latent; the
\* cost list is the contracted costs, the uncontracted factors and the
\* negated guide log-factors, no cost term mentions an auxiliary latent, and
\* what a cost term is integrated over is a guide latent.
C10_SplitAndNoAuxiliaryInCosts ==
    /\ Partitioned =>
          /\ contracted_factors =
                SelectSeq(model_terms.log_factors,
                          LAMBDA f : f.inputs \cap TheAuxLatents # {})
          /\ uncontracted_factors =
                SelectSeq(model_terms.log_factors,
                          LAMBDA f : f.inputs \cap TheAuxLatents = {})
          /\ Range(contracted_factors) \cap Range(uncontracted_factors) = {}
          /\ Len(contracted_factors) + Len(uncontracted_factors)
                = Len(model_terms.log_factors)
    /\ CostsAssembled =>
          /\ costs = contracted_costs \o uncontracted_factors
                        \o [i \in 1..Len(guide_terms.log_factors) |->
                               Neg(guide_terms.log_factors[i])]
          /\ \A i \in 1..Len(costs) :
                /\ costs[i].inputs \cap TheAuxLatents = {}
                /\ (costs[i].inputs \ ThePlateVars) \ TheParticlePlate
                      \subseteq guide_terms.measure_vars

C10_Witness ==
    /\ pc = "done"
    /\ contracted_factors # <<>>
    /\ \E i \in 1..Len(contracted_costs) :
          contracted_costs[i].inputs \cap guide_terms.measure_vars # {}
    /\ guide_terms.log_factors # <<>>

====
